---- MODULE Spec2Model ----
(***************************************************************************)
(* Single-entry, multiple-exit (SEME) regions over a flow graph.           *)
(*                                                                         *)
(* The module models src/src/lib.rs (SemeRegion and its operations) run    *)
(* against the graph provider of src/src/test.rs (GraphPair).  The         *)
(* recursive insertion algorithm is modelled with an explicit call stack:  *)
(* one action per basic step of the code, at most one assignment to the    *)
(* region per action.  A call in tail position (`return self.f(..)` or a   *)
(* call that is the last statement of a function) replaces the caller's    *)
(* frame by the callee's.                                                  *)
(***************************************************************************)
EXTENDS Naturals, Integers, Sequences, FiniteSets, TLC

\* Largest node index of the flow graphs explored (nodes are 0..k, k <= MaxNode).
MaxNode == 3

\* Largest number of edges of the flow graphs explored.
MaxEdges == 4

VARIABLES
    graph,       \* GraphPair.graph: the set of edges <<p, q>> (p -> q)
    dominators,  \* GraphPair.dominators: immediate dominator of every non-root node
    region,      \* the SemeRegion under maintenance: [head, tails]
    built,       \* the SemeRegion values a caller can have built on this graph
    other,       \* the operand of the add_region call in progress (else empty)
    stack,       \* call stack of the running top-level call, top frame last
    err,         \* "ok", or the panic that stopped the program
    call,        \* the last top-level call: [op, point] (op "none": dropped)
    pre,         \* value of region when the last top-level call started
    inserted,    \* the points the caller gave to add_point since the last call
                 \* of empty(), for a region built by add_point alone ({} for
                 \* a region that add_region has worked on)
    ret          \* value returned by the last contains query

vars == <<graph, dominators, built, region, other, stack, err, call, pre,
          inserted, ret>>

----------------------------------------------------------------------------
(* Points and graphs *)

\* Point::entry() for NodeIndex
entry == 0

\* GraphPair::new: the nodes are 0 .. (largest index named by an edge)
RECURSIVE SetMax(_)
SetMax(S) ==
    IF S = {} THEN 0
    ELSE LET x == CHOOSE x \in S : TRUE
             m == SetMax(S \ {x})
         IN IF x > m THEN x ELSE m

NumNodes(edges) ==
    IF edges = {} THEN 0
    ELSE SetMax({IF e[1] > e[2] THEN e[1] + 1 ELSE e[2] + 1 : e \in edges})

NodesOf(edges) == 0 .. (NumNodes(edges) - 1)

Nodes == NodesOf(graph)

\* Nodes reachable from entry along edges, never stepping onto `avoid`
RECURSIVE ReachFrom(_, _, _)
ReachFrom(edges, seen, avoid) ==
    LET next == {e[2] : e \in {f \in edges : f[1] \in seen}} \ (seen \cup avoid)
    IN IF next = {} THEN seen ELSE ReachFrom(edges, seen \cup next, avoid)

AllReachable(edges) == ReachFrom(edges, {entry}, {}) = NodesOf(edges)

\* a dominates b in the flow graph: every path from entry to b goes through a
FlowDominates(edges, a, b) ==
    \/ a = b
    \/ a = entry
    \/ b \notin ReachFrom(edges, {entry}, {a})

\* dominators::simple_fast(&graph, entry): the immediate dominator of every
\* node but the root (the root has none)
SimpleFast(edges) ==
    [b \in NodesOf(edges) \ {entry} |->
        LET strict == {a \in NodesOf(edges) : a # b /\ FlowDominates(edges, a, b)}
        IN CHOOSE d \in strict : \A a \in strict : FlowDominates(edges, a, d)]

\* All subsets of S with at most k elements
RECURSIVE SubsetsUpTo(_, _)
SubsetsUpTo(S, k) ==
    IF k = 0 THEN {{}}
    ELSE LET prev == SubsetsUpTo(S, k - 1)
         IN prev \cup {T \cup {e} : T \in prev, e \in S}

\* The graph of the tests diamond1 and diamond2
Diamond == {<<0, 1>>, <<0, 2>>, <<1, 3>>, <<2, 3>>}

\* An edge set as a number, to compare edge sets
RECURSIVE Code(_)
Code(edges) ==
    IF edges = {} THEN 0
    ELSE LET e == CHOOSE e \in edges : TRUE
         IN 2 ^ (e[1] * (MaxNode + 1) + e[2]) + Code(edges \ {e})

\* The renamings of the nodes 0..k that keep entry
Renamings(k) == {f \in Permutations(0 .. k) : f[entry] = entry}

\* The code compares points with == only (Point: Copy + Ord + Debug, no
\* operation of lib.rs orders two points), so renaming the non-entry nodes of
\* a graph renames every run: one graph of each class is explored.
Canonical(edges) ==
    \A f \in Renamings(NumNodes(edges) - 1) :
        Code(edges) <= Code({<<f[e[1]], f[e[2]]>> : e \in edges})

\* The flow graphs explored: every node reachable from entry, entry without
\* predecessors; self-loops, cycles and irreducible shapes included.
Graphs ==
    {E \in SubsetsUpTo((0 .. MaxNode) \X (1 .. MaxNode), MaxEdges) :
        E # {} /\ AllReachable(E) /\ Canonical(E)} \cup {Diamond}

----------------------------------------------------------------------------
(* The graph provider: impl GraphRef<NodeIndex> for &GraphPair *)

\* Option<P>: None is the empty sequence, Some(p) is <<p>>
None == <<>>

Some(p) == <<p>>

\* GraphRef::predecessors (the order of the iterator is left open: callers
\* draw the predecessors from this set in any order)
Predecessors(point) == {e[1] : e \in {f \in graph : f[2] = point}}

\* GraphRef::immediate_dominator: None for the root
ImmediateDominator(point) ==
    IF point \in DOMAIN dominators THEN Some(dominators[point]) ELSE None

\* Dominators::dominators(point): point, its immediate dominator, ... , root
RECURSIVE DominatorChain(_)
DominatorChain(point) ==
    LET d == ImmediateDominator(point)
    IN IF d = None THEN <<point>> ELSE <<point>> \o DominatorChain(d[1])

\* GraphRef::dominates: point1 occurs on the dominator chain of point2
Dominates(point1, point2) ==
    LET chain == DominatorChain(point2)
    IN \E i \in 1 .. Len(chain) : chain[i] = point1

\* mutual_dominator returning the last point of the dominator chain
MutualDominatorLast(point1, point2) ==
    LET chain == DominatorChain(point2)
    IN chain[Len(chain)]

\* GraphRef::mutual_dominator: the first p on the dominator chain of point2
\* that dominates point1 (the code panics when there is none; the root ends
\* every chain and dominates every node, so there is one)
MutualDominator(point1, point2) ==
    LET chain == DominatorChain(point2)
        i == CHOOSE i \in 1 .. Len(chain) :
                /\ Dominates(chain[i], point1)
                /\ \A j \in 1 .. (i - 1) : ~Dominates(chain[j], point1)
    IN chain[i]

----------------------------------------------------------------------------
(* SemeRegion: pure parts *)

\* SemeRegion::empty
Empty == [head |-> entry, tails |-> <<>>]

\* SemeRegion::is_empty
IsEmpty(r) == r.tails = <<>>

\* dominates_any_tail with the arguments of dominates exchanged
RECURSIVE AnyTailFromExchanged(_, _, _)
AnyTailFromExchanged(tails, point, i) ==
    IF i > Len(tails) THEN FALSE
    ELSE IF Dominates(tails[i], point) THEN TRUE
    ELSE AnyTailFromExchanged(tails, point, i + 1)

\* SemeRegion::dominates_any_tail: tails.iter().any(..), scanned from index i
RECURSIVE AnyTailFrom(_, _, _)
AnyTailFrom(tails, point, i) ==
    IF i > Len(tails) THEN FALSE
    ELSE IF Dominates(point, tails[i]) THEN TRUE
    ELSE AnyTailFrom(tails, point, i + 1)

DominatesAnyTail(r, point) == AnyTailFrom(r.tails, point, 1)

\* contains with || for &&
ContainsEither(r, point) == Dominates(r.head, point) \/ DominatesAnyTail(r, point)

\* SemeRegion::contains
Contains(r, point) == Dominates(r.head, point) /\ DominatesAnyTail(r, point)

\* tails.iter().position(|&t| t == p): index of the first tail equal to p,
\* 0 when there is none
RECURSIVE PositionFrom(_, _, _)
PositionFrom(tails, p, i) ==
    IF i > Len(tails) THEN 0
    ELSE IF tails[i] = p THEN i
    ELSE PositionFrom(tails, p, i + 1)

Position(tails, p) == PositionFrom(tails, p, 1)

----------------------------------------------------------------------------
(* Call stack *)

\* Deepest call stack explored; the recursion of the code stays well below it
\* (see NoStackOverflow).
MaxDepth == MaxNode + 4

Frame(fn, point, p, parent, todo, index) ==
    [fn |-> fn, point |-> point, p |-> p, parent |-> parent,
     todo |-> todo, index |-> index]

\* add_point, suspended in its call of ensure_continuity (line 105)
AddPointFrame(point) == Frame("add_point", point, point, point, {}, 0)

\* add_point_dominated_by_head at the top of its loop (second iteration or
\* later), with the loop variable p
DominatedByHeadFrame(point, p) ==
    Frame("add_point_dominated_by_head", point, p, point, {}, 0)

\* ensure_continuity inside its `for`, todo = the predecessors of point that
\* the iterator has not yielded yet
EnsureContinuityFrame(parent, point, todo) ==
    Frame("ensure_continuity", point, point, parent, todo, 0)

\* add_region, index = position in region.tails of the next tail to insert
AddRegionFrame(index) == Frame("add_region", entry, entry, entry, {}, index)

Top == stack[Len(stack)]

Result(r, stk, e) == [region |-> r, stack |-> stk, err |-> e]

----------------------------------------------------------------------------
(* SemeRegion: the insertion algorithm.  Each operator takes the region r   *)
(* and the stack `rest` of the callers and gives the region, the stack and *)
(* the panic state after the code it models.                               *)

\* ensure_continuity, from its entry to the first `for` (or to its return
\* when child = parent)
CallEnsureContinuity(r, rest, parent, child) ==
    IF child = parent
    THEN Result(r, rest, "ok")
    ELSE Result(r, Append(rest, EnsureContinuityFrame(parent, child, Predecessors(child))), "ok")

\* add_point_dominated_by_head_and_not_by_tail without its noop case
NotByTailAlwaysPush(r, rest, point) ==
    CallEnsureContinuity([r EXCEPT !.tails = Append(@, point)],
                         rest, r.head, point)

\* add_point_dominated_by_head_and_not_by_tail without its call of
\* ensure_continuity
NotByTailWithoutRepair(r, rest, point) ==
    IF DominatesAnyTail(r, point)
    THEN Result(r, rest, "ok")
    ELSE Result([r EXCEPT !.tails = Append(@, point)], rest, "ok")

\* add_point_dominated_by_head_and_not_by_tail
AddPointDominatedByHeadAndNotByTail(r, rest, point) ==
    IF DominatesAnyTail(r, point)
    THEN Result(r, rest, "ok")
    ELSE CallEnsureContinuity([r EXCEPT !.tails = Append(@, point)],
                              rest, r.head, point)

\* The loop of add_point_dominated_by_head with the extension step writing
\* the first tail instead of the tail found
DominatedByHeadLoopFirstTail(r, rest, point, p) ==
    LET index == Position(r.tails, p)
    IN IF index # 0
       THEN IF p = point
            THEN Result(r, rest, "ok")
            ELSE CallEnsureContinuity([r EXCEPT !.tails[1] = point],
                                      rest, p, point)
       ELSE IF p = r.head
       THEN IF DominatesAnyTail(r, point)
            THEN Result(r, rest, "ok")
            ELSE CallEnsureContinuity([r EXCEPT !.tails = Append(@, point)],
                                      rest, r.head, point)
       ELSE LET d == ImmediateDominator(p)
            IN IF d = None
               THEN Result(r, Append(rest, DominatedByHeadFrame(point, p)), "unwrap")
               ELSE Result(r, Append(rest, DominatedByHeadFrame(point, d[1])), "ok")

\* The loop of add_point_dominated_by_head without its test `p == self.head`
DominatedByHeadLoopPastHead(r, rest, point, p) ==
    LET index == Position(r.tails, p)
    IN IF index # 0
       THEN IF p = point
            THEN Result(r, rest, "ok")
            ELSE CallEnsureContinuity([r EXCEPT !.tails[index] = point],
                                      rest, p, point)
       ELSE LET d == ImmediateDominator(p)
            IN IF d = None
               THEN Result(r, Append(rest, DominatedByHeadFrame(point, p)), "unwrap")
               ELSE Result(r, Append(rest, DominatedByHeadFrame(point, d[1])), "ok")

\* One iteration of the loop of add_point_dominated_by_head
DominatedByHeadLoop(r, rest, point, p) ==
    LET index == Position(r.tails, p)
    IN IF index # 0
       THEN IF p = point
            THEN Result(r, rest, "ok")
            ELSE CallEnsureContinuity([r EXCEPT !.tails[index] = point],
                                      rest, p, point)
       ELSE IF p = r.head
       THEN AddPointDominatedByHeadAndNotByTail(r, rest, point)
       ELSE LET d == ImmediateDominator(p)
            IN IF d = None
               THEN Result(r, Append(rest, DominatedByHeadFrame(point, p)), "unwrap")
               ELSE Result(r, Append(rest, DominatedByHeadFrame(point, d[1])), "ok")

\* add_point_dominated_by_head, from its entry through the first iteration
\* of its loop
CallAddPointDominatedByHead(r, rest, point) ==
    IF ~Dominates(r.head, point)
    THEN Result(r, rest, "debug_assert")
    ELSE DominatedByHeadLoop(r, rest, point, point)

\* add_point taking a point that head dominates for contained
CallAddPointAssumesContained(r, rest, point) ==
    IF IsEmpty(r)
    THEN Result([head |-> point, tails |-> Append(r.tails, point)], rest, "ok")
    ELSE IF Dominates(r.head, point)
    THEN Result(r, rest, "ok")
    ELSE LET old_head == r.head
             new_head == MutualDominator(old_head, point)
         IN CallEnsureContinuity([r EXCEPT !.head = new_head],
                                 Append(rest, AddPointFrame(point)),
                                 new_head, old_head)

\* add_point taking the inserted point for the new head
CallAddPointHeadIsPoint(r, rest, point) ==
    IF IsEmpty(r)
    THEN Result([head |-> point, tails |-> Append(r.tails, point)], rest, "ok")
    ELSE IF Dominates(r.head, point)
    THEN CallAddPointDominatedByHead(r, rest, point)
    ELSE LET old_head == r.head
             new_head == point
         IN CallEnsureContinuity([r EXCEPT !.head = new_head],
                                 Append(rest, AddPointFrame(point)),
                                 new_head, old_head)

\* add_point taking the entry point for the new head
CallAddPointHeadIsEntry(r, rest, point) ==
    IF IsEmpty(r)
    THEN Result([head |-> point, tails |-> Append(r.tails, point)], rest, "ok")
    ELSE IF Dominates(r.head, point)
    THEN CallAddPointDominatedByHead(r, rest, point)
    ELSE LET old_head == r.head
             new_head == entry
         IN CallEnsureContinuity([r EXCEPT !.head = new_head],
                                 Append(rest, AddPointFrame(point)),
                                 new_head, old_head)

\* add_point leaving head alone on the empty region
CallAddPointKeepsHead(r, rest, point) ==
    IF IsEmpty(r)
    THEN Result([head |-> r.head, tails |-> Append(r.tails, point)], rest, "ok")
    ELSE IF Dominates(r.head, point)
    THEN CallAddPointDominatedByHead(r, rest, point)
    ELSE LET old_head == r.head
             new_head == MutualDominator(old_head, point)
         IN CallEnsureContinuity([r EXCEPT !.head = new_head],
                                 Append(rest, AddPointFrame(point)),
                                 new_head, old_head)

\* add_point, from its entry to its first call
CallAddPoint(r, rest, point) ==
    IF IsEmpty(r)
    THEN Result([head |-> point, tails |-> Append(r.tails, point)], rest, "ok")
    ELSE IF Dominates(r.head, point)
    THEN CallAddPointDominatedByHead(r, rest, point)
    ELSE LET old_head == r.head
             new_head == MutualDominator(old_head, point)
         IN CallEnsureContinuity([r EXCEPT !.head = new_head],
                                 Append(rest, AddPointFrame(point)),
                                 new_head, old_head)

\* ensure_continuity with an `if` for its `while`: only child is repaired
EnsureContinuityChildOnly(r, rest, parent, point) == Result(r, rest, "ok")

\* ensure_continuity without `point = immediate_dominator(point)`
EnsureContinuityNoAdvance(r, rest, parent, point) ==
    CallEnsureContinuity(r, rest, parent, point)

\* ensure_continuity testing `point != parent` before the step to the
\* immediate dominator, not after it: the predecessors of parent are
\* inserted too
EnsureContinuityThroughParent(r, rest, parent, point) ==
    LET d == ImmediateDominator(point)
    IN IF point = parent
       THEN Result(r, rest, "ok")
       ELSE IF d = None
       THEN Result(r, Append(rest, EnsureContinuityFrame(parent, point, {})), "unwrap")
       ELSE Result(r, Append(rest, EnsureContinuityFrame(parent, d[1], Predecessors(d[1]))), "ok")

\* The end of an iteration of the `while` of ensure_continuity: step to the
\* immediate dominator, test the loop condition, start the next `for`
EnsureContinuityAdvance(r, rest, parent, point) ==
    LET d == ImmediateDominator(point)
    IN IF d = None
       THEN Result(r, Append(rest, EnsureContinuityFrame(parent, point, {})), "unwrap")
       ELSE CallEnsureContinuity(r, rest, parent, d[1])

----------------------------------------------------------------------------
(* Steps of the code *)

\* The loop of add_region stopping before the last tail of the operand
StepAddRegionLastTailLeftOut(r, stk, oth) ==
    LET top == stk[Len(stk)]
        rest == SubSeq(stk, 1, Len(stk) - 1)
    IN IF top.index >= Len(oth.tails)
       THEN {Result(r, rest, "ok")}
       ELSE {CallAddPoint(r, Append(rest, AddRegionFrame(top.index + 1)),
                          oth.tails[top.index])}

\* The states the code can be in after one step of the call whose stack is
\* stk (top frame last) on region r, with `oth` the operand of add_region
StepAddRegion(r, stk, oth) ==
    LET top == stk[Len(stk)]
        rest == SubSeq(stk, 1, Len(stk) - 1)
    IN IF top.index > Len(oth.tails)
       THEN {Result(r, rest, "ok")}
       ELSE {CallAddPoint(r, Append(rest, AddRegionFrame(top.index + 1)),
                          oth.tails[top.index])}

StepAddPoint(r, stk) ==
    LET top == stk[Len(stk)]
        rest == SubSeq(stk, 1, Len(stk) - 1)
    IN {CallAddPointDominatedByHead(r, rest, top.point)}

StepDominatedByHead(r, stk) ==
    LET top == stk[Len(stk)]
        rest == SubSeq(stk, 1, Len(stk) - 1)
    IN {DominatedByHeadLoop(r, rest, top.point, top.p)}

StepEnsureContinuity(r, stk) ==
    LET top == stk[Len(stk)]
        rest == SubSeq(stk, 1, Len(stk) - 1)
    IN IF top.todo # {}
       THEN {CallAddPoint(r,
                          Append(rest, [top EXCEPT !.todo = @ \ {predecessor}]),
                          predecessor) : predecessor \in top.todo}
       ELSE {EnsureContinuityAdvance(r, rest, top.parent, top.point)}

Steps(r, stk, oth) ==
    LET fn == stk[Len(stk)].fn
    IN CASE fn = "add_region" -> StepAddRegion(r, stk, oth)
         [] fn = "add_point" -> StepAddPoint(r, stk)
         [] fn = "add_point_dominated_by_head" -> StepDominatedByHead(r, stk)
         [] fn = "ensure_continuity" -> StepEnsureContinuity(r, stk)

\* The states of region, stack and panic that the calls of add_point reach
\* from the states `fresh` (those of `done` are explored already); a state
\* with an empty stack is a caller's turn, who calls add_point on any point
RECURSIVE ReachedFrom(_, _)
ReachedFrom(done, fresh) ==
    IF fresh = {} THEN done
    ELSE LET all == done \cup fresh
             live == {s \in fresh : s.err = "ok" /\ Len(s.stack) < MaxDepth}
             next == UNION {IF s.stack = <<>>
                            THEN {CallAddPoint(s.region, <<>>, point) : point \in Nodes}
                            ELSE Steps(s.region, s.stack, Empty) : s \in live}
         IN ReachedFrom(all, next \ all)

\* The regions a caller can have built from SemeRegion::empty() by calls of
\* add_point (add_region adds none: it is a sequence of add_point calls)
BuiltRegions ==
    {s.region : s \in {t \in ReachedFrom({}, {Result(Empty, <<>>, "ok")}) :
                          t.stack = <<>> /\ t.err = "ok"}}

\* The states that the call in progress reaches from the states `fresh`, up
\* to its return (empty stack) or its panic
RECURSIVE RunFrom(_, _)
RunFrom(done, fresh) ==
    IF fresh = {} THEN done
    ELSE LET all == done \cup fresh
             live == {s \in fresh : /\ s.err = "ok"
                                    /\ s.stack # <<>>
                                    /\ Len(s.stack) < MaxDepth}
             next == UNION {Steps(s.region, s.stack, Empty) : s \in live}
         IN RunFrom(all, next \ all)

\* The values of the region r after r.add_point(graph, point) has returned
\* (one for every order in which the predecessors can be yielded)
AddPointOutcomes(r, point) ==
    {s.region : s \in {t \in RunFrom({}, {CallAddPoint(r, <<>>, point)}) :
                          t.stack = <<>> /\ t.err = "ok"}}

\* The values of the regions R after add_point was called on each of
\* points[i], points[i + 1], ... in this order
RECURSIVE InsertAll(_, _, _)
InsertAll(R, points, i) ==
    IF i > Len(points) THEN R
    ELSE InsertAll(UNION {AddPointOutcomes(r, points[i]) : r \in R}, points, i + 1)

----------------------------------------------------------------------------
(* Actions *)

Idle == stack = <<>> /\ err = "ok"

\* No call in progress and the caller is done with the last call's result
Quiet == Idle /\ call.op = "none"

Running == stack # <<>> /\ err = "ok" /\ Len(stack) < MaxDepth

Apply(res) ==
    /\ region' = res.region
    /\ stack' = res.stack
    /\ err' = res.err

\* A caller calls region.add_point(graph, point)
AddPoint(point) ==
    /\ Quiet
    /\ Apply(CallAddPoint(region, <<>>, point))
    /\ call' = [op |-> "add_point", point |-> point]
    /\ pre' = region
    /\ inserted' = IF IsEmpty(region) \/ inserted # {}
                   THEN inserted \cup {point}
                   ELSE {}
    /\ other' = Empty
    /\ UNCHANGED <<graph, dominators, built, ret>>

\* add_region without its test of region.is_empty()
AddRegionWithoutEmptyTest(operand) ==
    /\ Quiet
    /\ Apply(CallAddPoint(region, <<AddRegionFrame(1)>>, operand.head))
    /\ call' = [op |-> "add_region", point |-> operand.head]
    /\ pre' = region
    /\ inserted' = {}
    /\ other' = operand
    /\ UNCHANGED <<graph, dominators, built, ret>>

\* add_region inserting the tails of the operand but not its head
AddRegionWithoutHead(operand) ==
    /\ Quiet
    /\ IF IsEmpty(operand)
       THEN UNCHANGED <<region, stack, err>>
       ELSE Apply(CallAddPoint(region, <<AddRegionFrame(2)>>, operand.tails[1]))
    /\ call' = [op |-> "add_region", point |-> operand.head]
    /\ pre' = region
    /\ inserted' = {}
    /\ other' = operand
    /\ UNCHANGED <<graph, dominators, built, ret>>

\* A caller calls region.add_region(graph, &operand), operand being any
\* region built on the same graph
AddRegion(operand) ==
    /\ Quiet
    /\ IF IsEmpty(operand)
       THEN UNCHANGED <<region, stack, err>>
       ELSE Apply(CallAddPoint(region, <<AddRegionFrame(1)>>, operand.head))
    /\ call' = [op |-> "add_region", point |-> operand.head]
    /\ pre' = region
    /\ inserted' = {}
    /\ other' = operand
    /\ UNCHANGED <<graph, dominators, built, ret>>

\* add_region: the loop over region.tails
AddRegionLoop ==
    /\ Running
    /\ Top.fn = "add_region"
    /\ \E res \in StepAddRegion(region, stack, other) : Apply(res)
    /\ UNCHANGED <<graph, dominators, built, other, call, pre, inserted, ret>>

\* add_point: ensure_continuity has returned, line 123
AddPointResume ==
    /\ Running
    /\ Top.fn = "add_point"
    /\ \E res \in StepAddPoint(region, stack) : Apply(res)
    /\ UNCHANGED <<graph, dominators, built, other, call, pre, inserted, ret>>

\* add_point_dominated_by_head: one more iteration of the loop
AddPointDominatedByHead ==
    /\ Running
    /\ Top.fn = "add_point_dominated_by_head"
    /\ \E res \in StepDominatedByHead(region, stack) : Apply(res)
    /\ UNCHANGED <<graph, dominators, built, other, call, pre, inserted, ret>>

\* ensure_continuity: the `for` yields a predecessor and add_point is called
\* on it, or the `for` is exhausted and the `while` goes on
EnsureContinuity ==
    /\ Running
    /\ Top.fn = "ensure_continuity"
    /\ \E res \in StepEnsureContinuity(region, stack) : Apply(res)
    /\ UNCHANGED <<graph, dominators, built, other, call, pre, inserted, ret>>

\* A caller starts over with SemeRegion::empty()
NewRegion ==
    /\ Quiet
    /\ region' = Empty
    /\ call' = [op |-> "empty", point |-> entry]
    /\ pre' = region
    /\ inserted' = {}
    /\ other' = Empty
    /\ UNCHANGED <<graph, dominators, built, stack, err, ret>>

\* A caller asks region.contains(graph, point)
ContainsQuery(point) ==
    /\ Quiet
    /\ ret' = Contains(region, point)
    /\ call' = [op |-> "contains", point |-> point]
    /\ pre' = region
    /\ other' = Empty
    /\ UNCHANGED <<graph, dominators, built, region, stack, err, inserted>>

\* The caller is done with the result of the last call (it checks it, as
\* the tests do, and goes on): the record of the call is dropped
Forget ==
    /\ Idle
    /\ call.op # "none"
    /\ call' = [op |-> "none", point |-> entry]
    /\ pre' = Empty
    /\ other' = Empty
    /\ ret' = FALSE
    /\ UNCHANGED <<graph, dominators, built, region, stack, err, inserted>>

Init ==
    /\ graph \in Graphs
    /\ dominators = SimpleFast(graph)
    /\ built = BuiltRegions
    /\ region = Empty
    /\ other = Empty
    /\ stack = <<>>
    /\ err = "ok"
    /\ call = [op |-> "none", point |-> entry]
    /\ pre = Empty
    /\ inserted = {}
    /\ ret = FALSE

\* The code of add_point runs: one step of the call in progress
PointStep ==
    \/ AddPointResume
    \/ AddPointDominatedByHead
    \/ EnsureContinuity

\* The code runs: one step of the call in progress
Step ==
    \/ AddRegionLoop
    \/ PointStep

Next ==
    \/ \E point \in Nodes : AddPoint(point)
    \/ \E operand \in built : AddRegion(operand)
    \/ NewRegion
    \/ \E point \in Nodes : ContainsQuery(point)
    \/ Forget
    \/ Step

\* Callers that use empty, add_point, add_region and contains
Spec == Init /\ [][Next]_vars

PointNext ==
    \/ \E point \in Nodes : AddPoint(point)
    \/ NewRegion
    \/ \E point \in Nodes : ContainsQuery(point)
    \/ Forget
    \/ PointStep

MergeNext ==
    \/ \E point \in Nodes : AddPoint(point)
    \/ \E operand \in built : AddRegion(operand)
    \/ NewRegion
    \/ Forget
    \/ Step

\* Callers that build regions with empty, add_point and add_region
MergeSpec == Init /\ [][MergeNext]_vars

\* Callers that use empty, add_point and contains only
PointSpec == Init /\ [][PointNext]_vars

OrderNext ==
    \/ \E point \in Nodes : AddPoint(point)
    \/ NewRegion
    \/ Forget
    \/ PointStep

\* Callers that build a region from empty by calls of add_point
OrderSpec == Init /\ [][OrderNext]_vars

\* The code is sequential and never waits: a call in progress takes its next
\* step
PointLiveSpec == Init /\ [][PointNext]_vars /\ WF_vars(PointStep)

----------------------------------------------------------------------------
(* Properties *)

\* The points the region r contains
ContainedSet(r) == {point \in Nodes : Contains(r, point)}

\* The last top-level call was `op` and has returned
Returned(op) == Idle /\ call.op = op

\* The region r is continuous: every member but the head has all its
\* flow-graph predecessors in r
Continuous(r) ==
    \A N \in Nodes :
        (Contains(r, N) /\ N # r.head) =>
            \A predecessor \in Predecessors(N) : Contains(r, predecessor)

\* The first i entries of the stack hold n frames of the function fn
RECURSIVE FramesOf(_, _)
FramesOf(fn, i) ==
    IF i = 0 THEN 0
    ELSE FramesOf(fn, i - 1) + (IF stack[i].fn = fn THEN 1 ELSE 0)

\* C1 (Continuity): whenever a top-level add_point or add_region call has
\* returned, every point N the region contains, other than head, has all of
\* its flow-graph predecessors contained in the region.
Continuity ==
    (Returned("add_point") \/ Returned("add_region")) => Continuous(region)

\* C1 witness: an add_point call that moved the head has returned, and a
\* point with two predecessors, not contained before, is now a member
ContinuityWitness ==
    /\ Returned("add_point")
    /\ ~IsEmpty(pre)
    /\ region.head # pre.head
    /\ \E N \in Nodes :
          /\ N # region.head
          /\ Contains(region, N)
          /\ ~Contains(pre, N)
          /\ Cardinality(Predecessors(N) \ {N}) >= 2

\* C2 (Insertion postcondition): when add_point(graph, P) has returned the
\* region contains P; and every point the caller inserted so far is
\* dominated by head and contained.
InsertionPostcondition ==
    Idle =>
        /\ call.op = "add_point" => Contains(region, call.point)
        /\ \A point \in inserted :
              Dominates(region.head, point) /\ Contains(region, point)

\* C2 witness: three different points were inserted, the last one outside
\* the old head's dominance
InsertionWitness ==
    /\ Returned("add_point")
    /\ Cardinality(inserted) >= 3
    /\ ~Dominates(pre.head, call.point)

\* C3 (Monotonic growth): when add_point or add_region has returned, every
\* point contained when the call started is still contained.
MonotonicGrowth ==
    (Returned("add_point") \/ Returned("add_region")) =>
        ContainedSet(pre) \subseteq ContainedSet(region)

\* C3 witness: an add_region call on a region with two tails has returned
\* and the region has grown
MonotonicGrowthWitness ==
    /\ Returned("add_region")
    /\ Len(pre.tails) >= 2
    /\ ContainedSet(pre) # ContainedSet(region)
    /\ ContainedSet(pre) # {}

\* C4 (Head dominance): in every state, head dominates every tail.
HeadDominance ==
    \A i \in 1 .. Len(region.tails) : Dominates(region.head, region.tails[i])

\* C4 witness: the head was moved to a point that is not the entry, and the
\* region has two tails
HeadDominanceWitness ==
    /\ Returned("add_point")
    /\ ~IsEmpty(pre)
    /\ region.head # pre.head
    /\ region.head # entry
    /\ Len(region.tails) >= 2

\* C5 (Tail antichain): in every state, also inside the recursive calls of
\* ensure_continuity, tails holds no point twice and no tail dominates a
\* different tail.
TailAntichain ==
    \A i, j \in 1 .. Len(region.tails) :
        i # j =>
            /\ region.tails[i] # region.tails[j]
            /\ ~Dominates(region.tails[i], region.tails[j])

\* C5 witness: inside an ensure_continuity that runs inside another one, the
\* extension step has just replaced a tail (the inner call repairs from the
\* old tail to the new one) while the region has a second tail
TailAntichainWitness ==
    /\ stack # <<>>
    /\ FramesOf("ensure_continuity", Len(stack)) >= 2
    /\ Top.fn = "ensure_continuity"
    /\ Top.parent # region.head
    /\ Len(region.tails) >= 2
    /\ \E i \in 1 .. Len(region.tails) : Dominates(Top.point, region.tails[i])

\* C6 (Idempotence): when add_point(graph, P) has returned and P was
\* contained when the call started, the region contains the same points as
\* before.
Idempotence ==
    (Returned("add_point") /\ Contains(pre, call.point)) =>
        ContainedSet(region) = ContainedSet(pre)

\* C6 witness: a point that is neither the head nor a tail, in a region with
\* two tails, was inserted again
IdempotenceWitness ==
    /\ Returned("add_point")
    /\ Contains(pre, call.point)
    /\ call.point # pre.head
    /\ Position(pre.tails, call.point) = 0
    /\ Len(pre.tails) >= 2

\* The dominance relation of the graph provider, as a set of pairs
DominanceRelation == {d \in Nodes \X Nodes : Dominates(d[1], d[2])}

\* The points between the head h and the tails T on the dominator tree,
\* for the dominance relation dom
Between(dom, h, T) ==
    {X \in Nodes : <<h, X>> \in dom /\ \E t \in T : <<X, t>> \in dom}

\* The set S is continuous for the head h
ContinuousSet(h, S) ==
    \A N \in S \ {h} : Predecessors(N) \subseteq S

\* The continuous sets of the form Between(h, T) that include `must` (a head
\* that does not dominate every point of `must` gives no such set, so these
\* heads are left out before the tail sets are enumerated)
ValidSupersets(dom, must) ==
    LET heads == {h \in Nodes : \A m \in must : <<h, m>> \in dom}
        forms == {<<h, Between(dom, h, T)>> : h \in heads, T \in SUBSET Nodes}
    IN {c[2] : c \in {d \in forms :
                         must \subseteq d[2] /\ ContinuousSet(d[1], d[2])}}

\* C7 (Minimality): when add_point(graph, P) has returned on a region that
\* was not empty, the contained set is the smallest continuous set of the
\* form Between(h, T) that includes P and the points contained before: it is
\* such a set, and every such set includes it.
Minimality ==
    (Returned("add_point") /\ ~IsEmpty(pre)) =>
        LET dom == DominanceRelation
            valid == ValidSupersets(dom, ContainedSet(pre) \cup {call.point})
        IN /\ ContainedSet(region) \in valid
           /\ \A S \in valid : ContainedSet(region) \subseteq S

\* C7 witness: on the diamond, 2 was inserted after 0 and the region
\* contains exactly 0 and 2
MinimalityWitness ==
    /\ graph = Diamond
    /\ Returned("add_point")
    /\ call.point = 2
    /\ pre = [head |-> 0, tails |-> <<0>>]
    /\ ContainedSet(region) = {0, 2}

\* C8 (Definitional equivalence): contains(graph, P) returns true exactly
\* when head dominates P and P dominates some tail, and leaves head and
\* tails as they were; the empty region contains no point.
DefinitionalEquivalence ==
    Returned("contains") =>
        /\ ret = (/\ Dominates(region.head, call.point)
                  /\ \E t \in {region.tails[i] : i \in 1 .. Len(region.tails)} :
                        Dominates(call.point, t))
        /\ IsEmpty(region) => ~ret
        /\ region = pre

\* C8 witness: contains answered true for a point that is not the head and
\* dominates the second tail only
DefinitionalEquivalenceWitness ==
    /\ Returned("contains")
    /\ ret
    /\ call.point # region.head
    /\ Len(region.tails) >= 2
    /\ ~Dominates(call.point, region.tails[1])

\* The flow graph has a back edge: an edge into a dominator of its source
\* (a self-loop is one)
HasBackEdge == \E e \in graph : Dominates(e[2], e[1])

\* C9 (Termination): every call in progress returns: no panic stops it, its
\* stack stays below MaxDepth, and both dominator-chain walks end.
Termination == (stack # <<>>) ~> Idle

\* C9 witness: on a graph with a back edge, add_point runs inside an
\* ensure_continuity that runs inside another ensure_continuity
TerminationWitness ==
    /\ HasBackEdge
    /\ call.op = "add_point"
    /\ stack # <<>>
    /\ Top.fn = "add_point_dominated_by_head"
    /\ FramesOf("ensure_continuity", Len(stack)) >= 2

\* C10 (First insertion): add_point(graph, P) on the empty region returns at
\* once (no step of ensure_continuity, no walk) with head = P and
\* tails = [P]; the region then contains P and nothing else.
FirstInsertion ==
    (call.op = "add_point" /\ IsEmpty(pre)) =>
        /\ Idle
        /\ region = [head |-> call.point, tails |-> <<call.point>>]
        /\ ContainedSet(region) = {call.point}

\* C10 witness: the first point inserted is not the entry and has a
\* predecessor other than itself
FirstInsertionWitness ==
    /\ call.op = "add_point"
    /\ IsEmpty(pre)
    /\ call.point # entry
    /\ Predecessors(call.point) \ {call.point} # {}
    /\ region.head = call.point

\* C11 (Merge of an empty region): add_region(graph, other) with other
\* empty returns at once and leaves head and tails as they were; it does
\* not insert other.head, the entry point.
EmptyMergeNoop ==
    (call.op = "add_region" /\ IsEmpty(other)) =>
        /\ Idle
        /\ region.head = pre.head
        /\ region.tails = pre.tails

\* C11 witness: an empty region was merged into a region with two tails
\* that does not contain the entry point
EmptyMergeNoopWitness ==
    /\ Returned("add_region")
    /\ IsEmpty(other)
    /\ other.head = entry
    /\ Len(pre.tails) >= 2
    /\ ~Contains(pre, entry)
    /\ ~Contains(region, entry)

\* The contained sets that inserting the head of the region B and then each
\* of its tails, in order, with add_point gives from the region A
InsertedOneByOne(A, B) ==
    {ContainedSet(r) : r \in InsertAll({A}, <<B.head>> \o B.tails, 1)}

\* C12 as stated (Region-merge correctness): for all regions A and B built
\* by add_point, when A.add_region(graph, B) has returned A contains the
\* same points as after add_point of B.head and of each tail of B in order.
MergeCorrectnessForAll ==
    Returned("add_region") =>
        InsertedOneByOne(pre, other) = {ContainedSet(region)}

\* C12 amended: the same for every B that is not empty (the merge of an
\* empty B inserts nothing, while add_point of B.head inserts the entry).
MergeCorrectness ==
    (Returned("add_region") /\ ~IsEmpty(other)) =>
        InsertedOneByOne(pre, other) = {ContainedSet(region)}

\* C12 witness: a region with two tails was merged into a region with
\* another head that held a point of its own, and the head moved
MergeCorrectnessWitness ==
    /\ Returned("add_region")
    /\ Len(other.tails) >= 2
    /\ ~IsEmpty(pre)
    /\ other.head # pre.head
    /\ region.head # pre.head
    /\ ~(ContainedSet(pre) \subseteq ContainedSet(other))

\* C13 (Head update rule): when a top-level add_point(graph, P) has returned
\* on a region that was not empty and had head H: if H dominates P the head
\* is still H; else the head is mutual_dominator(H, P), which dominates H
\* and P and is dominated by every point that dominates both.
HeadUpdateRule ==
    (Returned("add_point") /\ ~IsEmpty(pre)) =>
        LET H == pre.head
            P == call.point
        IN IF Dominates(H, P)
           THEN region.head = H
           ELSE /\ region.head = MutualDominator(H, P)
                /\ Dominates(region.head, H)
                /\ Dominates(region.head, P)
                /\ \A X \in Nodes :
                      (Dominates(X, H) /\ Dominates(X, P)) =>
                          Dominates(X, region.head)

\* C13 witness: the head moved to a point that is neither the old head,
\* nor the inserted point, nor the entry
HeadUpdateRuleWitness ==
    /\ Returned("add_point")
    /\ ~IsEmpty(pre)
    /\ ~Dominates(pre.head, call.point)
    /\ region.head \notin {pre.head, call.point, entry}

\* Every ensure_continuity(graph, parent, child) in progress has its parent
\* dominated by head, and its parent dominates the point under repair and
\* every predecessor of it (the points passed to add_point)
RepairBelowParent ==
    \A i \in 1 .. Len(stack) :
        stack[i].fn = "ensure_continuity" =>
            /\ Dominates(region.head, stack[i].parent)
            /\ Dominates(stack[i].parent, stack[i].point)
            /\ \A predecessor \in Predecessors(stack[i].point) :
                  Dominates(stack[i].parent, predecessor)

\* C14 (Continuity repair never moves the head): every step keeps every
\* ensure_continuity in progress below its parent, and no step taken inside
\* a top-level add_point call (its first step excepted, which may promote
\* the head) assigns head: head is assigned at most once in the call.
RepairKeepsHead ==
    [][/\ RepairBelowParent'
       /\ stack # <<>> => region'.head = region.head]_vars

\* C14 witness: after a head promotion, an add_point called by
\* ensure_continuity on a predecessor other than the head is itself inside
\* ensure_continuity
RepairKeepsHeadWitness ==
    /\ call.op = "add_point"
    /\ ~IsEmpty(pre)
    /\ region.head # pre.head
    /\ Len(stack) >= 3
    /\ stack[1].fn = "add_point"
    /\ stack[2].fn = "ensure_continuity"
    /\ stack[3].fn = "ensure_continuity"
    /\ stack[3].parent # region.head

\* C15 (No fatal lookup): no call of add_point or add_region panics: no
\* unwrap of the immediate dominator of the entry point, no failed debug
\* assertion.  The walk of add_point_dominated_by_head is never at a point
\* without immediate dominator unless that point is the head or a tail, the
\* walk of ensure_continuity never is, and head dominates the point of
\* every add_point that is about to call add_point_dominated_by_head.
NoFatalLookup ==
    /\ err = "ok"
    /\ \A i \in 1 .. Len(stack) :
          /\ stack[i].fn = "ensure_continuity" =>
                ImmediateDominator(stack[i].point) # None
          /\ stack[i].fn = "add_point_dominated_by_head" =>
                \/ ImmediateDominator(stack[i].p) # None
                \/ stack[i].p = region.head
                \/ Position(region.tails, stack[i].p) # 0
          /\ stack[i].fn = "add_point" =>
                Dominates(region.head, stack[i].point)

\* C15 witness: the head is the entry point and the walk of
\* add_point_dominated_by_head, two steps above the inserted point, has
\* arrived at it
NoFatalLookupWitness ==
    /\ stack # <<>>
    /\ Top.fn = "add_point_dominated_by_head"
    /\ region.head = entry
    /\ Top.p = entry
    /\ Position(region.tails, entry) = 0
    /\ ImmediateDominator(Top.point) # Some(entry)

\* C16 (Merge covers both operands): when A.add_region(graph, B) has
\* returned, A contains every point that B contains and every point that
\* A contained when the call started.
MergeCoversBoth ==
    Returned("add_region") =>
        ContainedSet(other) \cup ContainedSet(pre) \subseteq ContainedSet(region)

\* C16 witness: B contains a point that is neither its head nor a tail of
\* it, and A did not contain that point before the merge
MergeCoversBothWitness ==
    /\ Returned("add_region")
    /\ ~IsEmpty(pre)
    /\ \E point \in ContainedSet(other) \ ContainedSet(pre) :
          /\ point # other.head
          /\ Position(other.tails, point) = 0

\* The values a region can have after the points of Q were inserted into
\* the empty region with add_point, each once, in any order
RECURSIVE InsertedInAnyOrder(_)
InsertedInAnyOrder(Q) ==
    IF Q = {} THEN {Empty}
    ELSE UNION {UNION {AddPointOutcomes(r, point) :
                           r \in InsertedInAnyOrder(Q \ {point})} : point \in Q}

\* The head and the contained set of each region of R
HeadAndContents(R) == {<<r.head, ContainedSet(r)>> : r \in R}

====
